---- MODULE Spec2Model ----
(***************************************************************************)
(* Model of the HTTP layer of dddpy (src/main.py): four FastAPI route      *)
(* handlers over a book use case, with a per-request database session.     *)
(*                                                                         *)
(* A request goes through three steps:                                     *)
(*   Receive      - the Depends chain runs: get_session up to its yield    *)
(*                  (SessionLocal()), then book_usecase;                   *)
(*   <handler>    - the route's handler body.  Every handler is an         *)
(*                  `async def` without any await, so its body runs to     *)
(*                  completion on the event loop: one atomic step;         *)
(*   get_session_finally - the generator's finally clause closes the       *)
(*                  session.                                               *)
(* Steps of different requests interleave freely.  One server process is   *)
(* modelled: several worker processes over one database would interleave   *)
(* inside the use case, whose code decides what then happens.              *)
(*                                                                         *)
(* The use case / repository are imported by main.py but their code is not *)
(* part of the sources at hand; they are modelled from the repository      *)
(* contract (usecase_* below).  Python's call binding is modelled: a call  *)
(* that does not supply the parameters a method requires raises TypeError. *)
(* Timestamps (created_at, updated_at) are left out.                       *)
(***************************************************************************)
EXTENDS Integers, Sequences, FiniteSets, TLC

VARIABLES storage,   \* the book table: sequence of rows, in insertion order
          req,       \* per client connection: the request being served
          opened,    \* number of sessions SessionLocal() has created so far
          open,      \* ids of the sessions that are not closed
          deleted    \* history: ISBNs whose last successful write was a DELETE

vars == <<storage, req, opened, open, deleted>>

\* ---- bounds ----
NumClients == 2        \* connections served concurrently
MaxRequests == 3       \* requests (sessions) per run

Clients == 1..NumClients
ISBNs == {"isbn1", "isbn2"}
Titles == {"title1", "title2"}
Pages == {1, 2}
\* the (title, page) pairs a create request is drawn from
Payloads == {<<"title1", 1>>, <<"title2", 2>>}

\* ---- status codes (fastapi.status) ----
HTTP_200_OK == 200
HTTP_201_CREATED == 201
HTTP_202_ACCEPTED == 202
HTTP_404_NOT_FOUND == 404
HTTP_409_CONFLICT == 409
HTTP_500_INTERNAL_SERVER_ERROR == 500

POST_books == "POST /books"
GET_books == "GET /books"
GET_book == "GET /books/{book_id}"
DELETE_book == "DELETE /books/{book_id}"
Routes == {POST_books, GET_books, GET_book, DELETE_book}

NoDetail == ""

Book(isbn, title, page) == [isbn |-> isbn, title |-> title, page |-> page]

\* rows of a table with the given ISBN
RowsOf(st, isbn) == SelectSeq(st, LAMBDA b : b.isbn = isbn)
\* rows of a table with another ISBN
RowsNot(st, isbn) == SelectSeq(st, LAMBDA b : b.isbn # isbn)
StoredIsbns(st) == {st[k].isbn : k \in 1..Len(st)}

\* ---- results of a use-case call ----
Returned(value, st) == [exc |-> "None", message |-> NoDetail, value |-> value, storage |-> st]
Raised(exc, message, st) == [exc |-> exc, message |-> message, value |-> <<>>, storage |-> st]

\* ---- use case (BookUseCase), from the repository contract ----
\* create_book(isbn, title, page): all three parameters are required
usecase_create_book(st, fault, args) ==
    IF DOMAIN args # {"isbn", "title", "page"}
    THEN Raised("TypeError", NoDetail, st)
    ELSE IF fault
    THEN Raised("Exception", NoDetail, st)
    ELSE IF args.isbn \in StoredIsbns(st)
    THEN Raised("BookAlreadyExistsError", "BookAlreadyExistsError.message", st)
    ELSE Returned(<<Book(args.isbn, args.title, args.page)>>,
                  Append(st, Book(args.isbn, args.title, args.page)))

usecase_fetch_book_by_isbn(st, fault, isbn) ==
    IF fault
    THEN Raised("Exception", NoDetail, st)
    ELSE IF isbn \notin StoredIsbns(st)
    THEN Raised("BookNotFoundError", "BookNotFoundError.message", st)
    ELSE Returned(<<RowsOf(st, isbn)[1]>>, st)

usecase_delete_book_by_isbn(st, fault, isbn) ==
    IF fault
    THEN Raised("Exception", NoDetail, st)
    ELSE IF isbn \notin StoredIsbns(st)
    THEN Raised("BookNotFoundError", "BookNotFoundError.message", st)
    ELSE Returned(<<>>, RowsNot(st, isbn))

\* ---- what a handler hands back to the framework ----
Response(status, detail, body, st) ==
    [status |-> status, detail |-> detail, body |-> body, storage |-> st]
HTTPException(status, detail, st) == Response(status, detail, <<>>, st)

\* ---- route handlers ----
\* seeded fault: the handler forgets to return the created book
create_book_noreturn(data, st, fault) ==
    LET r == usecase_create_book(st, fault,
                 [isbn |-> data.isbn, title |-> data.title, page |-> data.page])
    IN  IF r.exc = "BookAlreadyExistsError"
        THEN HTTPException(HTTP_409_CONFLICT, r.message, r.storage)
        ELSE IF r.exc # "None"
        THEN HTTPException(HTTP_500_INTERNAL_SERVER_ERROR, NoDetail, r.storage)
        ELSE Response(HTTP_201_CREATED, NoDetail, <<>>, r.storage)

\* seeded fault: no except clause for BookAlreadyExistsError
create_book_no409(data, st, fault) ==
    LET r == usecase_create_book(st, fault,
                 [isbn |-> data.isbn, title |-> data.title, page |-> data.page])
    IN  IF r.exc # "None"
        THEN HTTPException(HTTP_500_INTERNAL_SERVER_ERROR, NoDetail, r.storage)
        ELSE Response(HTTP_201_CREATED, NoDetail, r.value, r.storage)

\* POST /books
create_book(data, st, fault) ==
    LET r == usecase_create_book(st, fault,
                 [isbn |-> data.isbn, title |-> data.title, page |-> data.page])
    IN  IF r.exc = "BookAlreadyExistsError"
        THEN HTTPException(HTTP_409_CONFLICT, r.message, r.storage)
        ELSE IF r.exc # "None"
        THEN HTTPException(HTTP_500_INTERNAL_SERVER_ERROR, NoDetail, r.storage)
        ELSE Response(HTTP_201_CREATED, NoDetail, r.value, r.storage)

\* GET /books: the handler calls book_usecase.create_book() without arguments
get_books(st, fault) ==
    LET r == usecase_create_book(st, fault, <<>>)
    IN  IF r.exc = "BooksNotFoundError"
        THEN HTTPException(HTTP_404_NOT_FOUND, r.message, r.storage)
        ELSE IF r.exc # "None"
        THEN HTTPException(HTTP_500_INTERNAL_SERVER_ERROR, NoDetail, r.storage)
        ELSE Response(HTTP_200_OK, NoDetail, r.value, r.storage)

\* seeded fault: no except clause for BookNotFoundError
get_book_no404(book_id, st, fault) ==
    LET r == usecase_fetch_book_by_isbn(st, fault, book_id)
    IN  IF r.exc # "None"
        THEN HTTPException(HTTP_500_INTERNAL_SERVER_ERROR, NoDetail, r.storage)
        ELSE Response(HTTP_200_OK, NoDetail, r.value, r.storage)

\* seeded fault: the handler calls the wrong use-case method
get_book_deletes(book_id, st, fault) ==
    LET r == usecase_delete_book_by_isbn(st, fault, book_id)
    IN  IF r.exc = "BookNotFoundError"
        THEN HTTPException(HTTP_404_NOT_FOUND, r.message, r.storage)
        ELSE IF r.exc # "None"
        THEN HTTPException(HTTP_500_INTERNAL_SERVER_ERROR, NoDetail, r.storage)
        ELSE Response(HTTP_200_OK, NoDetail, r.value, r.storage)

\* GET /books/{book_id}
get_book(book_id, st, fault) ==
    LET r == usecase_fetch_book_by_isbn(st, fault, book_id)
    IN  IF r.exc = "BookNotFoundError"
        THEN HTTPException(HTTP_404_NOT_FOUND, r.message, r.storage)
        ELSE IF r.exc # "None"
        THEN HTTPException(HTTP_500_INTERNAL_SERVER_ERROR, NoDetail, r.storage)
        ELSE Response(HTTP_200_OK, NoDetail, r.value, r.storage)

\* seeded fault: the handler calls the wrong use-case method
delete_book_fetches(book_id, st, fault) ==
    LET r == usecase_fetch_book_by_isbn(st, fault, book_id)
    IN  IF r.exc = "BookNotFoundError"
        THEN HTTPException(HTTP_404_NOT_FOUND, r.message, r.storage)
        ELSE IF r.exc # "None"
        THEN HTTPException(HTTP_500_INTERNAL_SERVER_ERROR, NoDetail, r.storage)
        ELSE Response(HTTP_202_ACCEPTED, NoDetail, <<>>, r.storage)

\* seeded fault: no except clause for BookNotFoundError
delete_book_no404(book_id, st, fault) ==
    LET r == usecase_delete_book_by_isbn(st, fault, book_id)
    IN  IF r.exc # "None"
        THEN HTTPException(HTTP_500_INTERNAL_SERVER_ERROR, NoDetail, r.storage)
        ELSE Response(HTTP_202_ACCEPTED, NoDetail, <<>>, r.storage)

\* DELETE /books/{book_id}: nothing is returned
delete_book(book_id, st, fault) ==
    LET r == usecase_delete_book_by_isbn(st, fault, book_id)
    IN  IF r.exc = "BookNotFoundError"
        THEN HTTPException(HTTP_404_NOT_FOUND, r.message, r.storage)
        ELSE IF r.exc # "None"
        THEN HTTPException(HTTP_500_INTERNAL_SERVER_ERROR, NoDetail, r.storage)
        ELSE Response(HTTP_202_ACCEPTED, NoDetail, <<>>, r.storage)

\* ---- state machine ----
IdleRequest ==
    [pc |-> "idle", route |-> "", isbn |-> "", title |-> "", page |-> 0,
     session |-> 0, fault |-> FALSE, status |-> 0, detail |-> NoDetail, body |-> <<>>]

Init ==
    /\ storage = <<>>
    /\ req = [c \in Clients |-> IdleRequest]
    /\ opened = 0
    /\ open = {}
    /\ deleted = {}

\* A request arrives on a free connection and its dependencies are resolved:
\* get_session creates the session and yields it, book_usecase wraps it.
Receive(c) ==
    /\ req[c].pc \in {"idle", "done"}
    /\ opened < MaxRequests
    /\ \E route \in Routes, isbn \in ISBNs, payload \in Payloads :
         req' = [req EXCEPT ![c] =
                   [IdleRequest EXCEPT
                      !.pc = "ready",
                      !.route = route,
                      !.isbn = IF route = GET_books THEN "" ELSE isbn,
                      !.title = IF route = POST_books THEN payload[1] ELSE "",
                      !.page = IF route = POST_books THEN payload[2] ELSE 0,
                      !.session = opened + 1]]
    /\ opened' = opened + 1
    /\ open' = open \cup {opened + 1}
    /\ UNCHANGED <<storage, deleted>>

\* the handler of request c ran with the given outcome
Handled(c, fault, resp) ==
    /\ req' = [req EXCEPT ![c].pc = "handled",
                          ![c].fault = fault,
                          ![c].status = resp.status,
                          ![c].detail = resp.detail,
                          ![c].body = resp.body]
    /\ storage' = resp.storage
    /\ UNCHANGED <<opened, open>>

HandleCreateBook(c) ==
    /\ req[c].pc = "ready"
    /\ req[c].route = POST_books
    /\ \E fault \in BOOLEAN :
         LET resp == create_book(req[c], storage, fault)
         IN  /\ Handled(c, fault, resp)
             /\ deleted' = IF resp.status = HTTP_201_CREATED
                           THEN deleted \ {req[c].isbn} ELSE deleted

HandleGetBooks(c) ==
    /\ req[c].pc = "ready"
    /\ req[c].route = GET_books
    /\ \E fault \in BOOLEAN : Handled(c, fault, get_books(storage, fault))
    /\ UNCHANGED deleted

HandleGetBook(c) ==
    /\ req[c].pc = "ready"
    /\ req[c].route = GET_book
    /\ \E fault \in BOOLEAN : Handled(c, fault, get_book(req[c].isbn, storage, fault))
    /\ UNCHANGED deleted

HandleDeleteBook(c) ==
    /\ req[c].pc = "ready"
    /\ req[c].route = DELETE_book
    /\ \E fault \in BOOLEAN :
         LET resp == delete_book(req[c].isbn, storage, fault)
         IN  /\ Handled(c, fault, resp)
             /\ deleted' = IF resp.status = HTTP_202_ACCEPTED
                           THEN deleted \cup {req[c].isbn} ELSE deleted

\* seeded fault: session.close() after the yield without try/finally, so it
\* is skipped when the handler raised
get_session_nofinally(c) ==
    /\ req[c].pc = "handled"
    /\ req' = [req EXCEPT ![c] = [IdleRequest EXCEPT !.pc = "done",
                                                     !.session = req[c].session,
                                                     !.status = req[c].status]]
    /\ open' = IF req[c].status < 400 THEN open \ {req[c].session} ELSE open
    /\ UNCHANGED <<storage, opened, deleted>>

\* the request ends: get_session resumes after its yield and runs its
\* finally clause, whether the handler returned or raised.  Of a finished
\* request only its session and the status it was answered with are kept.
get_session_finally(c) ==
    /\ req[c].pc = "handled"
    /\ req' = [req EXCEPT ![c] = [IdleRequest EXCEPT !.pc = "done",
                                                     !.session = req[c].session,
                                                     !.status = req[c].status]]
    /\ open' = open \ {req[c].session}
    /\ UNCHANGED <<storage, opened, deleted>>

Next ==
    \E c \in Clients :
        \/ Receive(c)
        \/ HandleCreateBook(c)
        \/ HandleGetBooks(c)
        \/ HandleGetBook(c)
        \/ HandleDeleteBook(c)
        \/ get_session_finally(c)

Spec == Init /\ [][Next]_vars

TypeOK ==
    /\ opened \in 0..MaxRequests
    /\ open \subseteq 1..opened
    /\ deleted \subseteq ISBNs
    /\ \A k \in 1..Len(storage) :
         storage[k].isbn \in ISBNs /\ storage[k].title \in Titles /\ storage[k].page \in Pages
    /\ \A c \in Clients : req[c].pc \in {"idle", "ready", "handled", "done"}

\* ---- properties ----
\* this step is the handler of request c running
Handling(c) == req[c].pc = "ready" /\ req'[c].pc = "handled"
Submitted(c) == Book(req[c].isbn, req[c].title, req[c].page)
Holds(st, b) == \E k \in 1..Len(st) : st[k] = b
InFlight(c) == req[c].pc \in {"ready", "handled"}

\* C1: a POST /books with an ISBN that is not in storage (and no unexpected
\* failure of the use case) answers 201 with a body that echoes the submitted
\* isbn, title and page, and storage then holds that Book.
C1_CreateFresh ==
    [][\A c \in Clients :
         (/\ Handling(c)
          /\ req[c].route = POST_books
          /\ ~req'[c].fault
          /\ req[c].isbn \notin StoredIsbns(storage))
         => /\ req'[c].status = HTTP_201_CREATED
            /\ req'[c].body = <<Submitted(c)>>
            /\ Holds(storage', Submitted(c))]_vars

C1_Witness ==
    \E c \in Clients :
        /\ req[c].pc = "handled"
        /\ req[c].route = POST_books
        /\ req[c].status = HTTP_201_CREATED
        /\ req[c].body = <<Submitted(c)>>
        /\ Holds(storage, Submitted(c))

\* C2: a POST /books with an ISBN that storage already holds answers 409
\* with a detail message and leaves storage as it was.
C2_CreateDuplicate ==
    [][\A c \in Clients :
         (/\ Handling(c)
          /\ req[c].route = POST_books
          /\ ~req'[c].fault
          /\ req[c].isbn \in StoredIsbns(storage))
         => /\ req'[c].status = HTTP_409_CONFLICT
            /\ req'[c].detail # NoDetail
            /\ storage' = storage]_vars

C2_Witness ==
    \E c \in Clients :
        /\ req[c].pc = "handled"
        /\ req[c].route = POST_books
        /\ req[c].status = HTTP_409_CONFLICT
        /\ \E k \in 1..Len(storage) :
              /\ storage[k].isbn = req[c].isbn
              /\ storage[k].title # req[c].title
              /\ storage[k].page # req[c].page

\* C3: GET /books answers 404 when storage is empty and, when storage holds
\* N >= 1 Books, 200 with exactly those N Books.
C3_ListBooks ==
    [][\A c \in Clients :
         (/\ Handling(c)
          /\ req[c].route = GET_books
          /\ ~req'[c].fault)
         => IF storage = <<>>
            THEN req'[c].status = HTTP_404_NOT_FOUND
            ELSE /\ req'[c].status = HTTP_200_OK
                 /\ Len(req'[c].body) = Len(storage)
                 /\ \A k \in 1..Len(storage) : Holds(req'[c].body, storage[k])]_vars

\* C4: GET /books/{i} answers 200 with the stored Book whose isbn is i when
\* storage holds one, and 404 with a detail message when it holds none.
C4_FetchBook ==
    [][\A c \in Clients :
         (/\ Handling(c)
          /\ req[c].route = GET_book
          /\ ~req'[c].fault)
         => IF req[c].isbn \in StoredIsbns(storage)
            THEN /\ req'[c].status = HTTP_200_OK
                 /\ Len(req'[c].body) = 1
                 /\ req'[c].body[1].isbn = req[c].isbn
                 /\ Holds(storage, req'[c].body[1])
            ELSE /\ req'[c].status = HTTP_404_NOT_FOUND
                 /\ req'[c].detail # NoDetail]_vars

C4_Witness ==
    \E c1, c2 \in Clients :
        /\ req[c1].pc = "handled" /\ req[c2].pc = "handled"
        /\ req[c1].route = GET_book /\ req[c2].route = GET_book
        /\ req[c1].status = HTTP_200_OK
        /\ req[c1].body # <<>>
        /\ req[c1].body[1].isbn = req[c1].isbn
        /\ req[c2].status = HTTP_404_NOT_FOUND

\* C5: a DELETE /books/{i} of an ISBN that storage holds answers 202 and
\* removes that row and no other; a GET /books/{i} that follows, with no
\* create of i in between, answers 404.
C5_DeleteThenFetch ==
    [][\A c \in Clients :
         /\ (/\ Handling(c)
             /\ req[c].route = DELETE_book
             /\ ~req'[c].fault
             /\ req[c].isbn \in StoredIsbns(storage))
            => /\ req'[c].status = HTTP_202_ACCEPTED
               /\ req[c].isbn \notin StoredIsbns(storage')
               /\ Len(storage') = Len(storage) - 1
               /\ \A k \in 1..Len(storage) :
                     storage[k].isbn # req[c].isbn => Holds(storage', storage[k])
         /\ (/\ Handling(c)
             /\ req[c].route = GET_book
             /\ ~req'[c].fault
             /\ req[c].isbn \in deleted)
            => req'[c].status = HTTP_404_NOT_FOUND]_vars

C5_Witness ==
    \E c \in Clients :
        /\ req[c].pc = "handled"
        /\ req[c].route = GET_book
        /\ req[c].isbn \in deleted
        /\ ~req[c].fault
        /\ req[c].status = HTTP_404_NOT_FOUND

\* C6: a DELETE /books/{i} of an ISBN that storage does not hold answers 404
\* with a detail message and leaves storage as it was.
C6_DeleteMissing ==
    [][\A c \in Clients :
         (/\ Handling(c)
          /\ req[c].route = DELETE_book
          /\ ~req'[c].fault
          /\ req[c].isbn \notin StoredIsbns(storage))
         => /\ req'[c].status = HTTP_404_NOT_FOUND
            /\ req'[c].detail # NoDetail
            /\ storage' = storage]_vars

C6_Witness ==
    \E c \in Clients :
        /\ req[c].pc = "handled"
        /\ req[c].route = DELETE_book
        /\ req[c].status = HTTP_404_NOT_FOUND
        /\ req[c].detail # NoDetail
        /\ storage # <<>>

UniqueIsbn ==
    \A j, k \in 1..Len(storage) : storage[j].isbn = storage[k].isbn => j = k

\* C7: storage never holds two Books with the same ISBN, whatever the
\* interleaving; of two POST /books with the same ISBN that are in flight
\* together, once one has been answered 201 and its row is in storage the
\* other is answered 409.
C7_OneBookPerIsbn ==
    /\ []UniqueIsbn
    /\ [][\A c1, c2 \in Clients :
            (/\ c1 # c2
             /\ req[c1].pc = "handled"
             /\ req[c1].route = POST_books
             /\ req[c1].status = HTTP_201_CREATED
             /\ req[c2].route = POST_books
             /\ req[c2].isbn = req[c1].isbn
             /\ Handling(c2)
             /\ ~req'[c2].fault
             /\ req[c1].isbn \in StoredIsbns(storage))
            => /\ req'[c2].status = HTTP_409_CONFLICT
               /\ UniqueIsbn']_vars

C7_Witness ==
    \E c1, c2 \in Clients :
        /\ req[c1].pc = "handled" /\ req[c2].pc = "handled"
        /\ req[c1].route = POST_books /\ req[c2].route = POST_books
        /\ req[c1].isbn = req[c2].isbn
        /\ req[c1].session < req[c2].session
        /\ opened = 2
        /\ req[c1].status = HTTP_201_CREATED
        /\ req[c2].status = HTTP_409_CONFLICT
        /\ Len(RowsOf(storage, req[c1].isbn)) = 1

\* C8: a request that has finished has its session closed, whether it was
\* answered normally or with an error; every open session belongs to exactly
\* one request still being served, and no two requests share a session.
C8_SessionClosed ==
    /\ \A c \in Clients : req[c].pc = "done" => req[c].session \notin open
    /\ \A c \in Clients : InFlight(c) => req[c].session \in open
    /\ \A s \in open : \E c \in Clients : InFlight(c) /\ req[c].session = s
    /\ \A c1, c2 \in Clients :
          (c1 # c2 /\ req[c1].pc # "idle" /\ req[c2].pc # "idle")
          => req[c1].session # req[c2].session

C8_Witness ==
    \E c1, c2 \in Clients :
        /\ req[c1].pc = "done" /\ req[c2].pc = "done"
        /\ req[c1].status \in {HTTP_404_NOT_FOUND, HTTP_409_CONFLICT,
                               HTTP_500_INTERNAL_SERVER_ERROR}
        /\ req[c2].status \in {HTTP_200_OK, HTTP_201_CREATED, HTTP_202_ACCEPTED}
        /\ open = {}

\* C9: in every handler a request is answered 500 exactly when its use case
\* met a failure other than the mapped domain error, and a 500 carries no
\* detail message.
C9_UnexpectedOnly ==
    \A c \in Clients :
        req[c].pc = "handled"
        => /\ (req[c].status = HTTP_500_INTERNAL_SERVER_ERROR) <=> req[c].fault
           /\ req[c].status = HTTP_500_INTERNAL_SERVER_ERROR => req[c].detail = NoDetail

\* C10: storage changes only by a POST /books answered 201, which adds one
\* row, and a DELETE /books/{id} answered 202, which removes one row; the
\* GET handlers and every request answered with an error leave storage as it
\* was, and the title and page stored for an ISBN do not change while its
\* row stays.
C10_Frame ==
    [][/\ \/ storage' = storage
          \/ \E c \in Clients :
                /\ Handling(c)
                /\ req[c].route = POST_books
                /\ req'[c].status = HTTP_201_CREATED
                /\ storage' = Append(storage, Submitted(c))
          \/ \E c \in Clients :
                /\ Handling(c)
                /\ req[c].route = DELETE_book
                /\ req'[c].status = HTTP_202_ACCEPTED
                /\ Len(storage') = Len(storage) - 1
                /\ \A k \in 1..Len(storage') : Holds(storage, storage'[k])
       /\ \A c \in Clients :
             (Handling(c) /\ (req[c].route \in {GET_books, GET_book}
                              \/ req'[c].status >= 400))
             => storage' = storage
       /\ \A j \in 1..Len(storage), k \in 1..Len(storage') :
             storage[j].isbn = storage'[k].isbn => storage[j] = storage'[k]]_vars

C10_Witness ==
    \E c1, c2 \in Clients :
        /\ req[c1].pc = "handled" /\ req[c2].pc = "handled"
        /\ req[c1].route = GET_book
        /\ req[c1].status = HTTP_200_OK
        /\ req[c2].route = GET_books
        /\ storage # <<>>
        /\ Holds(storage, req[c1].body[1])
====
